---- MODULE Spec2Model ----
(***************************************************************************)
(* Model of wggf-monthly-digest.py: the authenticated session, the         *)
(* concurrently running get_digest tasks, the draining loop of fetch, the  *)
(* ProgressBar, and the pure helpers data_url, url_to_filename, is_empty.  *)
(* Python strings are sequences of one-character strings.                  *)
(***************************************************************************)
EXTENDS Integers, Sequences, FiniteSets, TLC

(* ------------------------------ bounds --------------------------------- *)

\* largest number of urls handed to fetch
MaxN == 2

\* last year of the year range used for the pure helpers
MaxYear == 2008

\* longest body handed to is_empty
MaxBodyLen == 101

(* ----------------------------- constants ------------------------------- *)

AUTH_URL == <<"h","t","t","p","s",":","/","/","l","i","s","t",".","g","e","n","e","a","l","o","g","y",".","n","e","t","/","m","m","/","p","r","i","v","a","t","e","/","w","e","s","t","f","a","l","e","n","g","e","n","/">>

DATA_URL == <<"h","t","t","p","s",":","/","/","l","i","s","t",".","g","e","n","e","a","l","o","g","y",".","n","e","t","/","m","m","/","a","r","c","h","i","v","/","w","e","s","t","f","a","l","e","n","g","e","n","/">>

\* the "does not exist" marker of is_empty
Marker == <<"e","x","i","s","t","i","e","r","t"," ","n","i","c","h","t">>

\* the length below which a body with the marker is a placeholder
EmptyThreshold == 100

FilenamePrefix == <<"w","g","g","f","-","m","o","n","t","h","l","y","-","d","i","g","e","s","t","-">>

FHtml == <<"f",".","h","t","m","l">>

DotHtml == <<".","h","t","m","l">>

FirstYear == 2000

Months == 1..12

StatusOK == 200

\* length=50 of the ProgressBar built in __main__
BarLength == 50

(* ------------------------- Python string helpers ----------------------- *)

Digit(d) == CASE d = 0 -> "0" [] d = 1 -> "1" [] d = 2 -> "2" [] d = 3 -> "3"
              [] d = 4 -> "4" [] d = 5 -> "5" [] d = 6 -> "6" [] d = 7 -> "7"
              [] d = 8 -> "8" [] d = 9 -> "9"

RECURSIVE NatStr(_)
\* str(n) for n >= 0
NatStr(n) == IF n < 10 THEN <<Digit(n)>> ELSE NatStr(n \div 10) \o <<Digit(n % 10)>>

\* str(n) for an int
IntStr(n) == IF n < 0 THEN <<"-">> \o NatStr(0 - n) ELSE NatStr(n)

\* f"{n:02d}"
Pad2(n) == IF n >= 0 /\ n < 10 THEN <<"0">> \o NatStr(n) ELSE IntStr(n)

\* s.startswith(sub, i-1), i one-based
MatchAt(s, sub, i) ==
    /\ i + Len(sub) - 1 <= Len(s)
    /\ \A k \in 1..Len(sub) : s[i + k - 1] = sub[k]

RECURSIVE FindFrom(_, _, _)
\* s.find(sub, i-1) + 1, i one-based; 0 when sub does not occur
FindFrom(s, sub, i) ==
    IF i + Len(sub) - 1 > Len(s) THEN 0
    ELSE IF MatchAt(s, sub, i) THEN i
    ELSE FindFrom(s, sub, i + 1)

\* sub in s
StrIn(sub, s) == FindFrom(s, sub, 1) # 0

RECURSIVE Split(_, _)
\* s.split(sep) for a non-empty separator
Split(s, sep) ==
    LET i == FindFrom(s, sep, 1)
    IN  IF i = 0 THEN <<s>>
        ELSE <<SubSeq(s, 1, i - 1)>> \o Split(SubSeq(s, i + Len(sep), Len(s)), sep)

RECURSIVE Replace(_, _, _)
\* s.replace(old, new) for a non-empty old
Replace(s, old, new) ==
    LET i == FindFrom(s, old, 1)
    IN  IF i = 0 THEN s
        ELSE SubSeq(s, 1, i - 1) \o new \o Replace(SubSeq(s, i + Len(old), Len(s)), old, new)

\* xs[-1]
LastOf(xs) == xs[Len(xs)]

(* ----------------------------- pure helpers ---------------------------- *)

data_url(year, month) ==
    LET year_str  == IntStr(year)
        month_str == Pad2(month)
    IN  DATA_URL \o year_str \o <<"-">> \o month_str \o <<"/">>
                 \o year_str \o <<"-">> \o month_str \o FHtml

\* the pieces url.split("/")[-1].split("-") that url_to_filename indexes
NameParts(url) == Split(LastOf(Split(url, <<"/">>)), <<"-">>)

\* url_to_filename raises IndexError when the last segment holds no "-"
FilenameRaises(url) == Len(NameParts(url)) < 2

\* url_to_filename that takes piece [0] for the month as well
url_to_filename_YearTwice(url) ==
    LET year_str  == NameParts(url)[1]
        month_str == Replace(NameParts(url)[1], FHtml, <<>>)
    IN  FilenamePrefix \o year_str \o <<"-">> \o month_str

\* url_to_filename that leaves "f.html" on the month
url_to_filename_Mut(url) ==
    LET year_str  == NameParts(url)[1]
        month_str == NameParts(url)[2]
    IN  FilenamePrefix \o year_str \o <<"-">> \o month_str

url_to_filename(url) ==
    LET year_str  == NameParts(url)[1]
        month_str == Replace(NameParts(url)[2], FHtml, <<>>)
    IN  FilenamePrefix \o year_str \o <<"-">> \o month_str

\* Python values handed to is_empty
PyStr(s) == [type |-> "str", val |-> s]

PyNone == [type |-> "NoneType", val |-> <<>>]

PyInt(n) == [type |-> "int", val |-> n]

\* '"existiert nicht" in body' and len(body) raise TypeError on these
RaisesInIsEmpty(body) == body.type \in {"NoneType", "int"}

\* is_empty with the length test off by one (<= for <)
is_empty_Mut(body) ==
    IF RaisesInIsEmpty(body) THEN FALSE
    ELSE StrIn(Marker, body.val) /\ Len(body.val) <= EmptyThreshold

is_empty(body) ==
    IF RaisesInIsEmpty(body) THEN FALSE
    ELSE StrIn(Marker, body.val) /\ Len(body.val) < EmptyThreshold

(* ------------------------------- state --------------------------------- *)

VARIABLES
    urls,        \* the list handed to fetch
    pbEnabled,   \* pb is not None (options["verbose"] is false)
    mainpc,      \* position of fetch: start, auth, await, write, done, aborted
    idx,         \* loop index of the draining loop
    session,     \* none, open, closed
    authState,   \* none, pending, ok, failed
    authPosts,   \* number of POSTs issued to AUTH_URL
    closeCount,  \* number of times the session was closed
    taskpc,      \* per task: uncreated, scheduled, get, text, done, cancelled
    resp,        \* per task: the response of session.get
    outcome,     \* per task: what get_digest returned or raised
    doneq,       \* the queue of as_completed: finished tasks in completion order, not yet consumed
    consumed,    \* tasks whose outcome "await task" has delivered, in order
    cur,         \* the task whose result is being written, 0 if none
    writeLog,    \* write_digest invocations: task and path, in order
    files,       \* the files on disk: set of [path, body]
    raised,      \* the exception that left fetch: none, auth, get, filename, write
    pb,          \* the ProgressBar
    pbCalls,     \* the arguments of pb.update, in order
    finishCount, \* number of times ProgressBar.__finish ran
    fn,          \* pure helper under evaluation: none, is_empty, data_url, url_to_filename
    fnArg,       \* its argument
    fnRet        \* its result

runVars == <<urls, pbEnabled, mainpc, idx, session, authState, authPosts,
             closeCount, taskpc, resp, outcome, doneq, consumed, cur,
             writeLog, files, raised, pb, pbCalls, finishCount>>

fnVars == <<fn, fnArg, fnRet>>

vars == <<runVars, fnVars>>

N == Len(urls)

Tasks == 1..N

(* ------------------------------ ProgressBar ---------------------------- *)

\* ProgressBar.__init__
NewProgressBar(total) == [total |-> total, finished |-> FALSE, shown |-> 0, filled |-> 0]

\* ProgressBar.update without the test of self.finished
PbUpdate_Mut(p, iteration) ==
    [p EXCEPT !.shown = iteration,
              !.filled = (BarLength * iteration) \div p.total,
              !.finished = (iteration = p.total)]

\* ProgressBar.update: the bar after update(iteration)
PbUpdate(p, iteration) ==
    IF p.finished THEN p
    ELSE [p EXCEPT !.shown = iteration,
                   !.filled = (BarLength * iteration) \div p.total,
                   !.finished = (iteration = p.total)]

\* the argument the draining loop passes to pb.update
UpdateArg(i) == i + 1

(* ------------------------------ get_digest ----------------------------- *)

\* text is none, raised or decoded: what response.text has done; body is the
\* decoded text
NoResp == [status |-> 0, final |-> <<>>, text |-> "none", body |-> <<>>]

Pending == [kind |-> "pending", cause |-> "", path |-> <<>>, body |-> <<>>]

\* get_digest returned None
ReturnNone(cause) == [kind |-> "none", cause |-> cause, path |-> <<>>, body |-> <<>>]

\* get_digest raised
Raise(cause) == [kind |-> "exc", cause |-> cause, path |-> <<>>, body |-> <<>>]

\* get_digest returned (path, body)
ReturnPair(path, body) == [kind |-> "ok", cause |-> "", path |-> path, body |-> body]

\* get_digest without the test of response.status
Classify_Mut(status, final, body) ==
    IF is_empty(PyStr(body)) THEN ReturnNone("empty")
    ELSE IF FilenameRaises(final) THEN Raise("filename")
         ELSE ReturnPair(url_to_filename(final) \o DotHtml, body)

\* get_digest after the response and its decoded body are there
Classify(status, final, body) ==
    IF is_empty(PyStr(body)) THEN ReturnNone("empty")
    ELSE IF status = StatusOK
         THEN IF FilenameRaises(final) THEN Raise("filename")
              ELSE ReturnPair(url_to_filename(final) \o DotHtml, body)
         ELSE ReturnNone("status")

(* ------------------------- what the server may send -------------------- *)

Statuses == {StatusOK, 404}

\* the URL a response ends at: the requested one, or a redirect target
FinalUrls(url) == {url, data_url(FirstYear, 1), AUTH_URL}

RealBody == <<"<","h","t","m","l",">","D","i","g","e","s","t","<","/","h","t","m","l",">">>

PlaceholderBody == <<"<","p",">">> \o Marker \o <<"<","/","p",">">>

\* the bodies response.text may return: a digest, and the placeholder page
RunBodies == {RealBody, PlaceholderBody}

(* -------------------------------- fetch -------------------------------- *)

RECURSIVE RangeSeq(_, _)
\* range(a, b) as a list
RangeSeq(a, b) == IF a >= b THEN <<>> ELSE <<a>> \o RangeSeq(a + 1, b)

\* years = range(2000, now_year) : the last year left out
YearsRange_Mut(now_year) == RangeSeq(FirstYear, now_year)

\* years = range(2000, now_year + 1)
YearsRange(now_year) == RangeSeq(FirstYear, now_year + 1)

\* months = range(1, 13)
MonthsRange == RangeSeq(1, 13)

RECURSIVE Comprehension(_, _)
\* [data_url(year, month) for year in years for month in months]
Comprehension(years, months) ==
    IF years = <<>> THEN <<>>
    ELSE [k \in 1..Len(months) |-> data_url(Head(years), months[k])]
         \o Comprehension(Tail(years), months)

\* the urls built in __main__ when the clock shows now_year
UrlList(now_year) == Comprehension(YearsRange(now_year), MonthsRange)

\* the first n urls of the list built in __main__
UrlsOfRun(n) == SubSeq(UrlList(FirstYear + (n \div 12)), 1, n)

\* the tasks made and scheduled before the POST is awaited
NoTasks_Mut(n) == [t \in 1..n |-> "scheduled"]

\* tasks = [] before the POST
NoTasks(n) == [t \in 1..n |-> "uncreated"]

\* the coroutines handed to as_completed, scheduled by its first next()
ScheduledTasks(n) == [t \in 1..n |-> "scheduled"]

RunInit(n, verbose) ==
    /\ urls = UrlsOfRun(n)
    /\ pbEnabled = ~verbose
    /\ mainpc = "start"
    /\ idx = 0
    /\ session = "none"
    /\ authState = "none"
    /\ authPosts = 0
    /\ closeCount = 0
    /\ taskpc = NoTasks(n)
    /\ resp = [t \in 1..n |-> NoResp]
    /\ outcome = [t \in 1..n |-> Pending]
    /\ doneq = <<>>
    /\ consumed = <<>>
    /\ cur = 0
    /\ writeLog = <<>>
    /\ files = {}
    /\ raised = "none"
    /\ pb = NewProgressBar(n)
    /\ pbCalls = <<>>
    /\ finishCount = 0

FnIdle == fn = "none" /\ fnArg = <<>> /\ fnRet = <<>>

Init == /\ \E n \in 0..MaxN : \E verbose \in BOOLEAN : RunInit(n, verbose)
        /\ FnIdle

\* asyncio.run has begun to cancel the tasks left pending
Cancelling == \E t \in Tasks : taskpc[t] = "cancelled"

\* the event loop runs the callbacks of tasks while fetch is suspended in an
\* await, and after fetch has raised until asyncio.run cancels what is pending
MainSuspended ==
    \/ mainpc \in {"auth", "await"}
    \/ mainpc = "aborted" /\ ~Cancelling

\* every task has taken its first step: all are started in the loop iteration
\* that follows the first suspension of fetch, before any future resolves
AllStarted == \A t \in Tasks : taskpc[t] # "scheduled"


\* "async with" leaves: the session is closed
CloseSession ==
    /\ session' = "closed"
    /\ closeCount' = closeCount + 1

\* an exception leaves the "async with" block and fetch
Abort(cause) ==
    /\ CloseSession
    /\ mainpc' = "aborted"
    /\ raised' = cause

\* pb.update(iteration) when pb is there
CallPbUpdate(iteration) ==
    IF pbEnabled
    THEN /\ pb' = PbUpdate(pb, iteration)
         /\ pbCalls' = Append(pbCalls, iteration)
         /\ finishCount' = IF ~pb.finished /\ PbUpdate(pb, iteration).finished
                           THEN finishCount + 1 ELSE finishCount
    ELSE UNCHANGED <<pb, pbCalls, finishCount>>

\* the head of "for idx, task in enumerate(as_completed(tasks))" with index i:
\* either the next iteration up to its "await task", or the end of fetch
LoopHead(i) ==
    /\ idx' = i
    /\ IF i < N
       THEN /\ CallPbUpdate(UpdateArg(i))
            /\ mainpc' = "await"
            /\ UNCHANGED <<session, closeCount, raised>>
       ELSE /\ CloseSession
            /\ mainpc' = "done"
            /\ UNCHANGED <<pb, pbCalls, finishCount, raised>>

\* fetch up to "await session.post"
Start ==
    /\ mainpc = "start"
    /\ session' = "open"
    /\ authState' = "pending"
    /\ authPosts' = authPosts + 1
    /\ mainpc' = "auth"
    /\ UNCHANGED <<urls, pbEnabled, idx, closeCount, taskpc, resp, outcome, doneq,
                   consumed, cur, writeLog, files, raised, pb, pbCalls, finishCount>>
    /\ UNCHANGED fnVars

\* the exception of session.post swallowed: the loop is entered all the same
AuthFail_Mut ==
    /\ mainpc = "auth"
    /\ authState' = "failed"
    /\ taskpc' = [t \in 1..N |-> "scheduled"]
    /\ LoopHead(0)
    /\ UNCHANGED <<urls, pbEnabled, authPosts, resp, outcome, doneq,
                   consumed, cur, writeLog, files>>
    /\ UNCHANGED fnVars

\* session.post raises
AuthFail ==
    /\ mainpc = "auth"
    /\ authState' = "failed"
    /\ Abort("auth")
    /\ UNCHANGED <<urls, pbEnabled, idx, authPosts, taskpc, resp, outcome, doneq,
                   consumed, cur, writeLog, files, pb, pbCalls, finishCount>>
    /\ UNCHANGED fnVars

\* session.post returns: the tasks are made and the loop is entered
AuthOk ==
    /\ mainpc = "auth"
    /\ authState' = "ok"
    /\ taskpc' = ScheduledTasks(N)
    /\ LoopHead(0)
    /\ UNCHANGED <<urls, pbEnabled, authPosts, resp, outcome, doneq,
                   consumed, cur, writeLog, files>>
    /\ UNCHANGED fnVars

\* a task starts: session.get(url) is issued
TaskGet(t) ==
    /\ MainSuspended
    /\ taskpc[t] = "scheduled"
    /\ taskpc' = [taskpc EXCEPT ![t] = "get"]
    /\ UNCHANGED <<urls, pbEnabled, mainpc, idx, session, authState, authPosts,
                   closeCount, resp, outcome, doneq, consumed, cur, writeLog,
                   files, raised, pb, pbCalls, finishCount>>
    /\ UNCHANGED fnVars

\* a task is finished: as_completed queues it
Finish(t, o) ==
    /\ taskpc' = [taskpc EXCEPT ![t] = "done"]
    /\ outcome' = [outcome EXCEPT ![t] = o]
    /\ doneq' = Append(doneq, t)

\* session.get raises inside get_digest, outside its try
TaskGetRaise(t) ==
    /\ MainSuspended
    /\ taskpc[t] = "get"
    /\ Finish(t, Raise("get"))
    /\ UNCHANGED <<urls, pbEnabled, mainpc, idx, session, authState, authPosts,
                   closeCount, resp, consumed, cur, writeLog,
                   files, raised, pb, pbCalls, finishCount>>
    /\ UNCHANGED fnVars

\* session.get returns a response
TaskGetResponse(t) ==
    /\ MainSuspended
    /\ taskpc[t] = "get"
    /\ \E status \in Statuses : \E final \in FinalUrls(urls[t]) :
          resp' = [resp EXCEPT ![t] = [status |-> status, final |-> final,
                                       text |-> "none", body |-> <<>>]]
    /\ taskpc' = [taskpc EXCEPT ![t] = "text"]
    /\ UNCHANGED <<urls, pbEnabled, mainpc, idx, session, authState, authPosts,
                   closeCount, outcome, doneq, consumed, cur, writeLog,
                   files, raised, pb, pbCalls, finishCount>>
    /\ UNCHANGED fnVars

\* response.text raises: logged, get_digest returns None
TaskTextRaise(t) ==
    /\ MainSuspended
    /\ taskpc[t] = "text"
    /\ resp' = [resp EXCEPT ![t].text = "raised"]
    /\ Finish(t, ReturnNone("decode"))
    /\ UNCHANGED <<urls, pbEnabled, mainpc, idx, session, authState, authPosts,
                   closeCount, consumed, cur, writeLog,
                   files, raised, pb, pbCalls, finishCount>>
    /\ UNCHANGED fnVars

\* response.text returns the body: the rest of get_digest
TaskText(t) ==
    /\ MainSuspended
    /\ taskpc[t] = "text"
    /\ \E body \in RunBodies :
          /\ resp' = [resp EXCEPT ![t].text = "decoded", ![t].body = body]
          /\ Finish(t, Classify(resp[t].status, resp[t].final, body))
    /\ UNCHANGED <<urls, pbEnabled, mainpc, idx, session, authState, authPosts,
                   closeCount, consumed, cur, writeLog,
                   files, raised, pb, pbCalls, finishCount>>
    /\ UNCHANGED fnVars

\* every delivered result taken for a pair
IsNotNone_Mut(o) == TRUE

\* "result is not None"
IsNotNone(o) == o.kind = "ok"

\* "await task" delivers the exception of a task
ConsumeRaise ==
    /\ mainpc = "await"
    /\ AllStarted
    /\ doneq # <<>>
    /\ outcome[Head(doneq)].kind = "exc"
    /\ doneq' = Tail(doneq)
    /\ consumed' = Append(consumed, Head(doneq))
    /\ Abort(outcome[Head(doneq)].cause)
    /\ UNCHANGED <<urls, pbEnabled, idx, authState, authPosts, taskpc, resp,
                   outcome, cur, writeLog, files, pb, pbCalls, finishCount>>
    /\ UNCHANGED fnVars

\* "await task" delivers None: on to the next iteration
ConsumeNone ==
    /\ mainpc = "await"
    /\ AllStarted
    /\ doneq # <<>>
    /\ outcome[Head(doneq)].kind # "exc"
    /\ ~IsNotNone(outcome[Head(doneq)])
    /\ doneq' = Tail(doneq)
    /\ consumed' = Append(consumed, Head(doneq))
    /\ LoopHead(idx + 1)
    /\ UNCHANGED <<urls, pbEnabled, authState, authPosts, taskpc, resp,
                   outcome, cur, writeLog, files>>
    /\ UNCHANGED fnVars

\* write_digest started without being awaited: the loop goes on at once
ConsumeResult_Mut ==
    /\ mainpc = "await"
    /\ AllStarted
    /\ doneq # <<>>
    /\ outcome[Head(doneq)].kind # "exc"
    /\ IsNotNone(outcome[Head(doneq)])
    /\ doneq' = Tail(doneq)
    /\ consumed' = Append(consumed, Head(doneq))
    /\ cur' = Head(doneq)
    /\ writeLog' = Append(writeLog, [task |-> Head(doneq), path |-> outcome[Head(doneq)].path])
    /\ LoopHead(idx + 1)
    /\ UNCHANGED <<urls, pbEnabled, authState, authPosts, taskpc, resp, outcome, files>>
    /\ UNCHANGED fnVars

\* "await task" delivers a result: write_digest(body, path) is entered
ConsumeResult ==
    /\ mainpc = "await"
    /\ AllStarted
    /\ doneq # <<>>
    /\ outcome[Head(doneq)].kind # "exc"
    /\ IsNotNone(outcome[Head(doneq)])
    /\ doneq' = Tail(doneq)
    /\ consumed' = Append(consumed, Head(doneq))
    /\ cur' = Head(doneq)
    /\ writeLog' = Append(writeLog, [task |-> Head(doneq), path |-> outcome[Head(doneq)].path])
    /\ mainpc' = "write"
    /\ UNCHANGED <<urls, pbEnabled, idx, session, authState, authPosts, closeCount,
                   taskpc, resp, outcome, files, raised, pb, pbCalls, finishCount>>
    /\ UNCHANGED fnVars

\* the file at path holds body, whatever it held
WriteFile(fs, path, body) ==
    {f \in fs : f.path # path} \cup {[path |-> path, body |-> body]}

\* write_digest returns: on to the next iteration
WriteOk ==
    /\ mainpc = "write"
    /\ files' = WriteFile(files, outcome[cur].path, outcome[cur].body)
    /\ cur' = 0
    /\ LoopHead(idx + 1)
    /\ UNCHANGED <<urls, pbEnabled, authState, authPosts, taskpc, resp,
                   outcome, doneq, consumed, writeLog>>
    /\ UNCHANGED fnVars

\* open raises inside write_digest: no file is touched
WriteFail ==
    /\ mainpc = "write"
    /\ cur' = 0
    /\ Abort("write")
    /\ UNCHANGED <<urls, pbEnabled, idx, authState, authPosts, taskpc, resp,
                   outcome, doneq, consumed, writeLog, files, pb, pbCalls, finishCount>>
    /\ UNCHANGED fnVars

\* the lengths a file may be cut to when the write fails after open
CutLens(body) == 0..(Len(body) - 1)

\* open(file, "w") creates or truncates the file, then f.write or the flush at
\* the end of the with block raises: the file is left with a part of body
WriteCut ==
    /\ mainpc = "write"
    /\ \E k \in CutLens(outcome[cur].body) :
          files' = WriteFile(files, outcome[cur].path, SubSeq(outcome[cur].body, 1, k))
    /\ cur' = 0
    /\ Abort("write")
    /\ UNCHANGED <<urls, pbEnabled, idx, authState, authPosts, taskpc, resp,
                   outcome, doneq, consumed, writeLog, pb, pbCalls, finishCount>>
    /\ UNCHANGED fnVars

\* the tasks get_digest has not finished in
Unfinished == {t \in Tasks : taskpc[t] \in {"scheduled", "get", "text"}}

\* fetch has raised: asyncio.run calls cancel() on the tasks still pending;
\* each ends in a callback of its own, CancelledError raised at the await of
\* get_digest, and the done-callback of as_completed queues it
CancelPending(t) ==
    /\ mainpc = "aborted"
    /\ t \in Unfinished
    /\ taskpc' = [taskpc EXCEPT ![t] = "cancelled"]
    /\ outcome' = [outcome EXCEPT ![t] = Raise("cancelled")]
    /\ doneq' = Append(doneq, t)
    /\ UNCHANGED <<urls, pbEnabled, mainpc, idx, session, authState, authPosts,
                   closeCount, resp, consumed, cur, writeLog, files,
                   raised, pb, pbCalls, finishCount>>
    /\ UNCHANGED fnVars

Next ==
    \/ Start
    \/ AuthFail
    \/ AuthOk
    \/ \E t \in Tasks : TaskGet(t)
    \/ \E t \in Tasks : TaskGetRaise(t)
    \/ \E t \in Tasks : TaskGetResponse(t)
    \/ \E t \in Tasks : TaskTextRaise(t)
    \/ \E t \in Tasks : TaskText(t)
    \/ ConsumeRaise
    \/ ConsumeNone
    \/ ConsumeResult
    \/ WriteOk
    \/ WriteFail
    \/ WriteCut
    \/ \E t \in Tasks : CancelPending(t)

Spec == Init /\ [][Next]_vars

(* ------------------- the pure helpers, called on their own ------------- *)

Fill(n) == [i \in 1..n |-> "x"]

\* body lengths around the marker's length and around the threshold
BodyLens == {0, 14, 15, 16, 40} \cup ((EmptyThreshold - 2)..MaxBodyLen)

\* the marker, and two strings that are nearly the marker
Mids == {Marker,
         <<"e","x","i","s","t","i","e","r","t","_","n","i","c","h","t">>,
         SubSeq(Marker, 1, Len(Marker) - 1)}

\* a body of length len that holds mid at offset p
Embed(mid, p, len) == Fill(p) \o mid \o Fill(len - p - Len(mid))

StrBodies ==
    {Embed(x[1], x[2], x[3]) :
        x \in {y \in Mids \X (0..MaxBodyLen) \X BodyLens :
                  /\ y[2] + Len(y[1]) <= y[3]
                  /\ y[2] \in {0, 1, y[3] - Len(y[1])}}}
    \cup {Fill(l) : l \in BodyLens}

IsEmptyInputs == {PyStr(b) : b \in StrBodies} \cup {PyNone, PyInt(0), PyInt(EmptyThreshold)}

Years == (FirstYear..MaxYear) \cup {0, 999, 10000}

\* the years the clock may show
NowYears == (FirstYear - 1)..MaxYear

PureInit ==
    /\ RunInit(0, TRUE)
    /\ fnRet = <<>>
    /\ \/ fn = "is_empty" /\ fnArg \in IsEmptyInputs
       \/ fn = "data_url" /\ fnArg \in [year : Years, month : Months]
       \/ fn = "urls" /\ fnArg \in [now_year : NowYears]

\* is_empty(body)
CallIsEmpty ==
    /\ fn = "is_empty"
    /\ fnRet' = is_empty(fnArg)
    /\ fn' = "is_empty.ret"
    /\ UNCHANGED <<fnArg, runVars>>

\* url = data_url(year, month)
CallDataUrl ==
    /\ fn = "data_url"
    /\ fnRet' = [url |-> data_url(fnArg.year, fnArg.month)]
    /\ fn' = "url_to_filename"
    /\ UNCHANGED <<fnArg, runVars>>

\* url_to_filename(url), and the filename get_digest makes of it
CallUrlToFilename ==
    /\ fn = "url_to_filename"
    /\ ~FilenameRaises(fnRet.url)
    /\ fnRet' = [url |-> fnRet.url,
                 name |-> url_to_filename(fnRet.url),
                 filename |-> url_to_filename(fnRet.url) \o DotHtml]
    /\ fn' = "url_to_filename.ret"
    /\ UNCHANGED <<fnArg, runVars>>

\* urls = [data_url(year, month) for year in years for month in months]
BuildUrls ==
    /\ fn = "urls"
    /\ fnRet' = UrlList(fnArg.now_year)
    /\ fn' = "urls.ret"
    /\ UNCHANGED <<fnArg, runVars>>

PureNext == CallIsEmpty \/ CallDataUrl \/ CallUrlToFilename \/ BuildUrls

PureSpec == PureInit /\ [][PureNext]_vars

(* ------------------------------- claims -------------------------------- *)

Terminal == mainpc \in {"done", "aborted"}

\* the tasks whose get_digest returned (path, body)
Successes == {t \in Tasks : outcome[t].kind = "ok"}

\* the write_digest invocations made for task t
WritesOf(t) == {i \in 1..Len(writeLog) : writeLog[i].task = t}

\* the GET of task t has been issued
GetIssued(t) == taskpc[t] \in {"get", "text", "done"}

\* the GET of task t has been issued and get_digest has not finished
InFlight(t) == taskpc[t] \in {"get", "text"}

\* C1: write_digest is invoked only for outcomes that are (path, body) pairs,
\* never for a None outcome, and when fetch has returned it has been invoked
\* exactly once for each of the K tasks with such an outcome, K times in all.
C1_WritesExactlySuccesses ==
    /\ \A i \in 1..Len(writeLog) : outcome[writeLog[i].task].kind = "ok"
    /\ mainpc = "done" =>
          /\ Len(consumed) = N
          /\ Len(writeLog) = Cardinality(Successes)
          /\ \A t \in Successes : Cardinality(WritesOf(t)) = 1

\* a finished run of two urls, consumed against submission order, one written
\* and one skipped as empty
C1_Witness ==
    /\ mainpc = "done"
    /\ N = 2
    /\ consumed = <<2, 1>>
    /\ Cardinality(Successes) = 1
    /\ Len(writeLog) = 1
    /\ \E t \in Tasks : outcome[t] = ReturnNone("empty")

\* C2: a write failure does not abort the run: when write_digest has raised,
\* every other outcome is still consumed and every other pair still written.
C2_WriteFailureIsLocal ==
    raised = "write" =>
        /\ Len(consumed) = N
        /\ \A t \in Successes : WritesOf(t) # {}

\* C3: a failure while processing one url, the GET raising included, ends
\* that item only: the other outcomes are still consumed, the other pairs
\* still written.
C3_FetchFailureIsLocal ==
    raised \in {"get", "filename"} =>
        /\ Len(consumed) = N
        /\ \A t \in Successes : WritesOf(t) # {}

\* C4: the POST to AUTH_URL is issued exactly once, and it has returned
\* before any GET is issued.
C4_AuthOnceBeforeFirstGet ==
    /\ authPosts <= 1
    /\ mainpc # "start" => authPosts = 1
    /\ \A t \in Tasks : GetIssued(t) => authState = "ok" /\ authPosts = 1

\* a GET is out while the POST has returned
C4_Witness ==
    /\ authState = "ok"
    /\ authPosts = 1
    /\ \E t \in Tasks : taskpc[t] = "get"

\* C5: the session is closed at most once, and never while a GET issued on
\* it is still in flight.
C5_CloseAfterAllFetches ==
    /\ closeCount <= 1
    /\ session = "closed" => \A t \in Tasks : ~InFlight(t)

\* C6: when the POST fails the run is aborted with no task made, no GET
\* issued, no write_digest call and the ProgressBar never updated.
C6_AuthFailureAbortsBeforeFetch ==
    authState = "failed" =>
        /\ mainpc = "aborted"
        /\ \A t \in Tasks : taskpc[t] = "uncreated"
        /\ writeLog = <<>>
        /\ files = {}
        /\ pbCalls = <<>>
        /\ pb = NewProgressBar(N)

\* the POST has failed with urls to fetch and a ProgressBar to update
C6_Witness ==
    /\ authState = "failed"
    /\ raised = "auth"
    /\ N >= 1
    /\ pbEnabled

\* C7: with a ProgressBar and at least one url, a run that has ended after the
\* POST returned has reached 100% exactly once: one update call made
\* pb.finished true, and the bar shows all N urls.
C7_FinishedExactlyOnce ==
    (Terminal /\ pbEnabled /\ authState = "ok" /\ N >= 1) =>
        (finishCount = 1 /\ pb.finished /\ pb.shown = N)

\* C8, in the form a finite run refutes: once the POST has returned and every
\* get_digest has finished, the run is not aborted; and it is not done with
\* an outcome unconsumed, the session open or the bar short of 100%.
C8_RunReachesDone ==
    /\ (authState = "ok" /\ \A t \in Tasks : taskpc[t] = "done") => mainpc # "aborted"
    /\ mainpc = "done" =>
          /\ Len(consumed) = N
          /\ session = "closed"
          /\ (pbEnabled /\ N >= 1) => pb.finished

\* the body holds the marker somewhere
HoldsMarker(s) ==
    \E i \in 1..(Len(s) - Len(Marker) + 1) : SubSeq(s, i, i + Len(Marker) - 1) = Marker

\* C9: is_empty(body) is true exactly when the marker occurs in body and
\* len(body) < 100; it is false for a body of 100 characters or more that
\* holds the marker, and false when evaluating the test raises.
C9_IsEmptyIff ==
    fn = "is_empty.ret" =>
        /\ fnArg.type = "str" =>
              (fnRet <=> (HoldsMarker(fnArg.val) /\ Len(fnArg.val) < 100))
        /\ (fnArg.type = "str" /\ Len(fnArg.val) >= 100) => fnRet = FALSE
        /\ fnArg.type # "str" => fnRet = FALSE

\* a body of exactly 100 characters that holds the marker is not empty
C9_Witness ==
    /\ fn = "is_empty.ret"
    /\ fnArg.type = "str"
    /\ Len(fnArg.val) = 100
    /\ HoldsMarker(fnArg.val)
    /\ fnRet = FALSE

\* C10 as stated: url_to_filename(data_url(Y, M)) is
\* "wggf-monthly-digest-{Y}-{MM}.html".
C10_FilenameWithExtension ==
    fn = "url_to_filename.ret" =>
        fnRet.name = FilenamePrefix \o IntStr(fnArg.year) \o <<"-">>
                        \o Pad2(fnArg.month) \o DotHtml

\* C10 amended: for a year Y >= 0 and a month M in 1..12,
\* url_to_filename(data_url(Y, M)) is "wggf-monthly-digest-{Y}-{MM}" with no
\* extension; get_digest appends ".html" to it; distinct (Y, M) give
\* distinct names.
C10_FilenameLeftInverse ==
    fn = "url_to_filename.ret" =>
        /\ fnRet.name = FilenamePrefix \o IntStr(fnArg.year) \o <<"-">>
                           \o Pad2(fnArg.month)
        /\ fnRet.filename = FilenamePrefix \o IntStr(fnArg.year) \o <<"-">>
                               \o Pad2(fnArg.month) \o DotHtml
        /\ \A a \in [year : Years, month : Months] :
              a # fnArg => url_to_filename(data_url(a.year, a.month)) # fnRet.name

\* June 2000: the month comes out zero-padded
C10_Witness ==
    /\ fn = "url_to_filename.ret"
    /\ fnArg = [year |-> 2000, month |-> 6]
    /\ fnRet.name = FilenamePrefix \o <<"2","0","0","0","-","0","6">>
    /\ fnRet.filename = FilenamePrefix \o <<"2","0","0","0","-","0","6",".","h","t","m","l">>

\* "{archiveBase}/{YYYY}-{MM}/{YYYY}-{MM}f.html" for a four-digit year, written
\* out digit by digit
TemplateUrl(y, m) ==
    LET yyyy == <<Digit(y \div 1000), Digit((y \div 100) % 10),
                  Digit((y \div 10) % 10), Digit(y % 10)>>
        mm   == <<Digit(m \div 10), Digit(m % 10)>>
    IN  DATA_URL \o yyyy \o <<"-">> \o mm \o <<"/">> \o yyyy \o <<"-">> \o mm
                 \o <<"f",".","h","t","m","l">>

\* C11: for every year Y in 2000..currentYear and month M in 1..12 the url
\* list holds exactly one url for (Y, M), of the template's form with the
\* month zero-padded; it holds no other url, so its length is
\* 12 * (currentYear - 2000 + 1).
C11_EnumeratorExact ==
    fn = "urls.ret" =>
        /\ Len(fnRet) = 12 * (fnArg.now_year - 2000 + 1)
        /\ \A y \in 2000..fnArg.now_year : \A m \in 1..12 :
              Cardinality({i \in 1..Len(fnRet) : fnRet[i] = TemplateUrl(y, m)}) = 1
        /\ \A i \in 1..Len(fnRet) :
              \E y \in 2000..fnArg.now_year : \E m \in 1..12 : fnRet[i] = TemplateUrl(y, m)

\* the list of a clock in 2002: 36 urls, from January 2000 to December 2002
C11_Witness ==
    /\ fn = "urls.ret"
    /\ fnArg.now_year = 2002
    /\ Len(fnRet) = 36
    /\ fnRet[1] = TemplateUrl(2000, 1)
    /\ fnRet[36] = TemplateUrl(2002, 12)

\* the tasks whose get_digest has returned or raised
Resolved == {t \in Tasks : taskpc[t] = "done"}

\* C12: the count the ProgressBar shows is at most the number of fetches
\* whose outcome has resolved; it does not show 100% before the last fetch
\* has completed.
C12_ProgressTracksCompletions ==
    pbEnabled =>
        /\ pb.shown <= Cardinality(Resolved)
        /\ pb.finished => Cardinality(Resolved) = N

\* the body of task t was decoded, is not classified empty, and the status is 200
GoodResponse(t) ==
    /\ resp[t].text = "decoded"
    /\ ~is_empty(PyStr(resp[t].body))
    /\ resp[t].status = 200

\* C13 as stated: get_digest returns (path, body) exactly when the body was
\* decoded, is not empty and the status is 200, the path named after the
\* final URL; an empty body gives None whatever the status, a non-empty body
\* with another status gives None.
C13_SuccessIffGoodResponse ==
    \A t \in Tasks : taskpc[t] \in {"done", "cancelled"} =>
        /\ outcome[t].kind = "ok" <=> GoodResponse(t)
        /\ outcome[t].kind = "ok" =>
              /\ outcome[t].path = url_to_filename(resp[t].final) \o DotHtml
              /\ outcome[t].body = resp[t].body
        /\ (resp[t].text = "decoded" /\ is_empty(PyStr(resp[t].body)))
              => outcome[t].kind = "none"
        /\ (resp[t].text = "decoded" /\ ~is_empty(PyStr(resp[t].body))
               /\ resp[t].status # 200) => outcome[t].kind = "none"

\* C13 amended: get_digest returns (path, body) exactly when the body was
\* decoded, is not empty, the status is 200 and the last segment of the final
\* URL holds a "-"; then the path is named after the final URL.  With the
\* first three and a final URL whose last segment holds no "-", get_digest
\* raises IndexError.  An empty body gives None whatever the status, a
\* non-empty body with another status gives None.
C13_SuccessIffGoodResponseAndName ==
    \A t \in Tasks : taskpc[t] \in {"done", "cancelled"} =>
        /\ outcome[t].kind = "ok" <=> (GoodResponse(t) /\ ~FilenameRaises(resp[t].final))
        /\ outcome[t].kind = "ok" =>
              /\ outcome[t].path = url_to_filename(resp[t].final) \o DotHtml
              /\ outcome[t].body = resp[t].body
        /\ (GoodResponse(t) /\ FilenameRaises(resp[t].final))
              => outcome[t] = Raise("filename")
        /\ (resp[t].text = "decoded" /\ is_empty(PyStr(resp[t].body)))
              => outcome[t].kind = "none"
        /\ (resp[t].text = "decoded" /\ ~is_empty(PyStr(resp[t].body))
               /\ resp[t].status # 200) => outcome[t].kind = "none"

\* the second url answered by a redirect to the first: its pair is named
\* after the final URL, not after the requested one
C13_Witness ==
    /\ N = 2
    /\ taskpc[2] = "done"
    /\ outcome[2].kind = "ok"
    /\ resp[2].final # urls[2]
    /\ outcome[2].path = url_to_filename(resp[2].final) \o DotHtml
    /\ outcome[2].path # url_to_filename(urls[2]) \o DotHtml

\* the response of task t was not redirected
Unredirected(t) == resp[t].final = urls[t]

\* C14 as stated: no two write_digest invocations of a run target the same
\* path, whatever the server answers.
C14_DistinctPaths ==
    \A i, j \in 1..Len(writeLog) : i # j => writeLog[i].path # writeLog[j].path

\* C14 amended: no url is written twice, and two write_digest invocations
\* target the same path only if the response of one of them was redirected;
\* writes of unredirected responses target distinct paths.
C14_DistinctPathsUnlessRedirected ==
    \A i, j \in 1..Len(writeLog) : i # j =>
        /\ writeLog[i].task # writeLog[j].task
        /\ (Unredirected(writeLog[i].task) /\ Unredirected(writeLog[j].task))
              => writeLog[i].path # writeLog[j].path

\* two unredirected responses written, to two files
C14_Witness ==
    /\ Len(writeLog) = 2
    /\ Unredirected(writeLog[1].task)
    /\ Unredirected(writeLog[2].task)
    /\ writeLog[1].path # writeLog[2].path
    /\ mainpc = "done"
    /\ Cardinality(files) = 2

\* C15: pb.update is called with 1, 2, ... in this order, never with more
\* than total, whichever fetch completes; the bar shows the last value passed,
\* so it never goes back; once update(total) has run, another update call
\* changes nothing.
C15_ProgressMonotone ==
    /\ Len(pbCalls) <= N
    /\ \A i \in 1..Len(pbCalls) : pbCalls[i] = i
    /\ pb.shown = Len(pbCalls)
    /\ pb.shown <= pb.total
    /\ pb.finished <=> (pb.shown = pb.total /\ pb.total >= 1)
    /\ pb.finished => \A k \in 0..(N + 1) : PbUpdate(pb, k) = pb

\* the bar of two urls after update(1), update(2), the second fetch having
\* completed first: a further update(1) leaves it as it is
C15_Witness ==
    /\ N = 2
    /\ pbEnabled
    /\ pbCalls = <<1, 2>>
    /\ consumed = <<2>>
    /\ pb.finished
    /\ pb.filled = BarLength
    /\ PbUpdate(pb, 1) = pb

\* task t is among the outcomes delivered by "await task"
Delivered(t) == \E i \in 1..Len(consumed) : consumed[i] = t

\* C16: write_digest is invoked for a url only after its GET has returned a
\* response, its body has been decoded and classified not empty, get_digest
\* has returned the pair and the loop has received it; the writes need not
\* follow the order of the url list.
C16_FetchClassifyWrite ==
    \A i \in 1..Len(writeLog) :
        LET t == writeLog[i].task
        IN  /\ taskpc[t] = "done"
            /\ resp[t].text = "decoded"
            /\ ~is_empty(PyStr(resp[t].body))
            /\ outcome[t].kind = "ok"
            /\ Delivered(t)
            /\ writeLog[i].path = outcome[t].path

\* the second url written before the first
C16_Witness ==
    /\ Len(writeLog) = 2
    /\ writeLog[1].task = 2
    /\ writeLog[2].task = 1
    /\ mainpc = "write"

\* C17: a write is in progress only while the loop stands in write_digest, so
\* at most one at a time; while it is, the outcome being written is the last
\* one delivered, no further outcome has been consumed and pb.update has not
\* been called for the next iteration, though other fetches may be in flight
\* or already queued.
C17_WritesSerialized ==
    /\ cur # 0 <=> mainpc = "write"
    /\ mainpc = "write" =>
          /\ cur \in Tasks
          /\ consumed[Len(consumed)] = cur
          /\ writeLog[Len(writeLog)].task = cur
          /\ Len(consumed) = idx + 1
          /\ pbEnabled => Len(pbCalls) = idx + 1

\* the first write in progress, the other fetch already completed and queued
\* but not consumed
C17_Witness ==
    /\ mainpc = "write"
    /\ N = 2
    /\ idx = 0
    /\ Len(doneq) = 1
    /\ Len(consumed) = 1
    /\ pbEnabled
    /\ pbCalls = <<1>>

====
